---- MODULE Spec2Model ----
(***************************************************************************)
(* Model of semantiva_imaging/data_types/data_types.py:                    *)
(* SingleChannelImage and SingleChannelImageStack over numpy buffers.      *)
(*                                                                         *)
(* A numpy array is a reference into a block of storage: several arrays    *)
(* (views) may refer to the same block.  A block holds a sequence of 2-D   *)
(* planes of one element type and one (h, w); a 2-D array is one plane of  *)
(* a block, a 3-D array is a run of planes of a block.                     *)
(***************************************************************************)
EXTENDS Integers, Sequences, FiniteSets, TLC

\* ------------------------------------------------------------- bounds
MaxCount == 2      \* axis-0 extent of a buffer a stack is constructed from: 0..MaxCount
MaxLen == 2        \* append grows stacks of fewer than MaxLen images
MaxRank == 4       \* ranks of the buffers handed to the constructors: 0..MaxRank
MaxBlocks == 4     \* storage blocks alive at once (stack, item, cur, one being built)

Ranks == 0..MaxRank
Blocks == 1..MaxBlocks
Vals == {0, 1}                                \* pixel values
Shapes == {<<0, 1>>, <<1, 1>>}                \* (height, width) of the buffers built

\* ------------------------------------------------------------- element types
DTypes == {"uint8", "int16", "uint16", "float32", "float64", "int32"}

\* the element types of the buffers the entities are built from and appended
EntityDTypes == {"uint8", "int16", "int32"}

ALLOWED_DTYPES == {"uint8", "float32", "float64"}

\* the wrap-around of an integer element type
Wrap(v, bits, signed) ==
    LET m == 2 ^ bits
        u == v % m
    IN  IF signed /\ u >= m \div 2 THEN u - m ELSE u

\* ndarray.astype on one element: a narrow integer type wraps around; int32 and
\* the floats hold every value of the model (whose integers are 32 bits wide)
AsType(v, to) ==
    CASE to = "uint8" -> Wrap(v, 8, FALSE)
      [] to = "uint16" -> Wrap(v, 16, FALSE)
      [] to = "int16" -> Wrap(v, 16, TRUE)
      [] OTHER -> v

\* numpy's promotion of two element types, as np.concatenate applies it
PromoteTypes(a, b) ==
    LET s == {a, b}
    IN  IF a = b THEN a
        ELSE IF "float64" \in s THEN "float64"
        ELSE IF s = {"float32", "int32"} THEN "float64"
        ELSE IF "float32" \in s THEN "float32"
        ELSE IF "int32" \in s THEN "int32"
        ELSE IF s = {"int16", "uint16"} THEN "int32"
        ELSE IF "int16" \in s THEN "int16"
        ELSE "uint16"

\* ------------------------------------------------------------- storage
FreeBlock == [dtype |-> "free", h |-> 0, w |-> 0, planes |-> <<>>]
NoImage == [blk |-> 0, lo |-> 0]
NoStack == [blk |-> 0, lo |-> 0, n |-> 0, auto_cast |-> FALSE]

Fill(v, k) == [j \in 1..k |-> v]

\* the buffer a caller builds: plane i of an (n, h, w) buffer is filled with
\* v, v + 1, ... modulo 2, so that neighbouring planes differ
RawPlanes(n, h, w, v) == [i \in 1..n |-> Fill((v + i - 1) % 2, h * w)]

CastPlanes(planes, to) ==
    [i \in 1..Len(planes) |-> [j \in 1..Len(planes[i]) |-> AsType(planes[i][j], to)]]

VARIABLES
    heap,    \* block id -> block: the storage of every live numpy array
    stack,   \* the SingleChannelImageStack: its _data, a run of planes of a block,
             \* and the auto_cast it was constructed with
    item,    \* a SingleChannelImage the caller holds: its _data, one plane of a block
    cur,     \* the SingleChannelImage the iteration yielded last
    gen,     \* the generator object of __iter__
    err      \* the outcome of the last call

vars == <<heap, stack, item, cur, gen, err>>

IdleGen == [pc |-> "idle", i |-> 0, c |-> 0, snap |-> <<>>]

\* ------------------------------------------------------------- array views
DType(a) == heap[a.blk].dtype
Shape2(a) == <<heap[a.blk].h, heap[a.blk].w>>
Pixels(a) == heap[a.blk].planes[a.lo]

Count(s) == s.n
Size3(s) == s.n * heap[s.blk].h * heap[s.blk].w
\* a slip: every index reads the first plane
SliceFirst(s, i) == [blk |-> s.blk, lo |-> s.lo]

\* self._data[i]: a view of plane i, no copy
Slice(s, i) == [blk |-> s.blk, lo |-> s.lo + i]

\* does the image im lie in the storage of the stack s
Aliases(s, im) == im.blk # 0 /\ im.blk = s.blk /\ im.lo \in s.lo..(s.lo + s.n - 1)

\* can a write through one be read through the other
Shares(s, im) == Aliases(s, im) /\ Len(Pixels(im)) > 0
StackPlanes(s) == [i \in 1..s.n |-> heap[s.blk].planes[s.lo + i - 1]]

\* reference counting: a block no array refers to is released, and of a block
\* only the planes some array refers to can ever be read again.  Block ids and
\* offsets are addresses, which carry no meaning: after every call the live
\* blocks are renumbered in the order stack, item, cur and cut to the planes
\* referred to.
Live(s, it, c) == {s.blk, it.blk, c.blk} \ {0}

Renumber(b, s, it, c) ==
    IF b = 0 THEN 0
    ELSE IF b = s.blk THEN 1
    ELSE IF b = it.blk THEN Cardinality({s.blk} \ {0}) + 1
    ELSE Cardinality({s.blk, it.blk} \ {0}) + 1

\* the planes of block b some array refers to
Refs(b, s, it, c) ==
    (IF s.blk = b THEN s.lo..(s.lo + s.n - 1) ELSE {})
        \cup (IF it.blk = b THEN {it.lo} ELSE {})
        \cup (IF c.blk = b THEN {c.lo} ELSE {})

Base(b, s, it, c) ==
    LET r == Refs(b, s, it, c)
    IN  IF r = {} THEN 1 ELSE CHOOSE x \in r : \A y \in r : x <= y

Top(b, s, it, c) ==
    LET r == Refs(b, s, it, c)
    IN  IF r = {} THEN 0 ELSE CHOOSE x \in r : \A y \in r : x >= y

Rebase(a, s, it, c) ==
    IF a.blk = 0 THEN a
    ELSE [a EXCEPT !.blk = Renumber(a.blk, s, it, c),
                   !.lo = IF a.lo \in Refs(a.blk, s, it, c)
                          THEN a.lo - Base(a.blk, s, it, c) + 1 ELSE 1]

Collect(hp, s, it, c) ==
    [k \in Blocks |->
        IF \E b \in Live(s, it, c) : Renumber(b, s, it, c) = k
        THEN LET b == CHOOSE x \in Live(s, it, c) : Renumber(x, s, it, c) = k
             IN  [hp[b] EXCEPT !.planes =
                     SubSeq(hp[b].planes, Base(b, s, it, c), Top(b, s, it, c))]
        ELSE FreeBlock]

\* the state a call leaves: the arrays s, it, c over the storage hp
Store(hp, s, it, c) ==
    /\ heap' = Collect(hp, s, it, c)
    /\ stack' = Rebase(s, s, it, c)
    /\ item' = Rebase(it, s, it, c)
    /\ cur' = Rebase(c, s, it, c)

\* where the next array is allocated
NewBlock == CHOOSE b \in Blocks : b \notin Live(stack, item, cur)

Alloc(dtype, h, w, planes) ==
    [heap EXCEPT ![NewBlock] = [dtype |-> dtype, h |-> h, w |-> w, planes |-> planes]]

\* ------------------------------------------------------------- constructors
\* a slip: only the signed 16-bit type is cast
NormalizeSignedOnly(dtype, auto_cast) ==
    IF dtype = "int16" /\ auto_cast THEN "float32" ELSE dtype

\* data.astype(np.float32) for 16-bit input when auto_cast
Normalize(dtype, auto_cast) ==
    IF dtype \in {"uint16", "int16"} /\ auto_cast THEN "float32" ELSE dtype

\* a slip: the element type is checked before the rank
ImageInitDTypeFirst(ndim, dtype, auto_cast) ==
    IF auto_cast /\ Normalize(dtype, auto_cast) \notin ALLOWED_DTYPES
    THEN "UnsupportedDType"
    ELSE IF ndim # 2 THEN "InvalidRank"
    ELSE "none"

\* the assertions of SingleChannelImage.__init__ and of validate
ImageInit(ndim, dtype, auto_cast) ==
    IF ndim # 2 THEN "InvalidRank"
    ELSE IF auto_cast /\ Normalize(dtype, auto_cast) \notin ALLOWED_DTYPES
         THEN "UnsupportedDType"
    ELSE "none"

\* the assertions of SingleChannelImageStack.__init__ and of validate
StackInit(ndim, dtype, auto_cast) ==
    IF ndim # 3 THEN "InvalidRank"
    ELSE IF auto_cast /\ Normalize(dtype, auto_cast) \notin ALLOWED_DTYPES
         THEN "UnsupportedDType"
    ELSE "none"

\* np.empty((0, 0, 0))
InitializeEmpty == [ndim |-> 3, dtype |-> "float64", n |-> 0, h |-> 0, w |-> 0]

\* SingleChannelImage(data, auto_cast) on a buffer the caller just built
ImageConstruct(ndim, dtype, auto_cast, h, w, v) ==
    LET res == ImageInit(ndim, dtype, auto_cast)
        to == Normalize(dtype, auto_cast)
    IN  /\ err' = res
        /\ IF res = "none"
           THEN Store(Alloc(to, h, w, CastPlanes(RawPlanes(1, h, w, v), to)),
                      stack, [blk |-> NewBlock, lo |-> 1], cur)
           ELSE UNCHANGED <<heap, stack, item, cur>>
        /\ UNCHANGED gen

\* SingleChannelImageStack(data, auto_cast) on a buffer the caller just built
StackConstruct(ndim, dtype, auto_cast, n, h, w, v) ==
    LET res == StackInit(ndim, dtype, auto_cast)
        to == Normalize(dtype, auto_cast)
    IN  /\ stack = NoStack
        /\ err' = res
        /\ IF res = "none"
           THEN Store(Alloc(to, h, w, CastPlanes(RawPlanes(n, h, w, v), to)),
                      [blk |-> NewBlock, lo |-> 1, n |-> n, auto_cast |-> auto_cast],
                      item, cur)
           ELSE UNCHANGED <<heap, stack, item, cur>>
        /\ UNCHANGED gen

\* SingleChannelImageStack(SingleChannelImageStack._initialize_empty())
StackConstructEmpty ==
    LET e == InitializeEmpty
    IN  StackConstruct(e.ndim, e.dtype, TRUE, e.n, e.h, e.w, 0)

\* ------------------------------------------------------------- append
Holder(src) == IF src = "item" THEN item ELSE cur

\* np.concatenate((self._data, np.expand_dims(new_image, axis=0)), axis=0)
Concatenate(s, im) ==
    LET to == PromoteTypes(DType(s), DType(im))
    IN  [dtype |-> to, h |-> heap[s.blk].h, w |-> heap[s.blk].w,
         planes |-> CastPlanes(Append(StackPlanes(s), Pixels(im)), to)]

\* np.expand_dims(new_image, axis=0): a view of the image's own storage
ExpandDims(im) == [blk |-> im.blk, lo |-> im.lo, n |-> 1]

\* self._data = a
SetData(s, a) == [s EXCEPT !.blk = a.blk, !.lo = a.lo, !.n = a.n]

\* is the stack taken to be empty
IsEmpty(s) == Size3(s) = 0

\* stack.append(item); src "other" is an argument that is no SingleChannelImage
AppendItem(src) ==
    LET im == Holder(src)
        nb == Concatenate(stack, im)
    IN  /\ stack # NoStack
        /\ IsEmpty(stack) \/ Count(stack) < MaxLen
        /\ src # "other" => im # NoImage
        /\ UNCHANGED gen
        /\ IF src = "other"
           THEN /\ err' = "TypeError"
                /\ UNCHANGED <<heap, stack, item, cur>>
           ELSE IF IsEmpty(stack)
           THEN /\ err' = "none"
                /\ Store(heap, SetData(stack, ExpandDims(im)), item, cur)
           ELSE IF Shape2(im) # Shape2(stack)
           THEN /\ err' = "ValueError"
                /\ UNCHANGED <<heap, stack, item, cur>>
           ELSE /\ err' = "none"
                /\ Store(Alloc(nb.dtype, nb.h, nb.w, nb.planes),
                         SetData(stack, [blk |-> NewBlock, lo |-> 1, n |-> Count(stack) + 1]),
                         item, cur)

\* ------------------------------------------------------------- iteration
EndGen(pc) == [pc |-> pc, i |-> 0, c |-> 0, snap |-> <<>>]

\* one next() of the generator g: SingleChannelImage(self._data[i]) or the end
GenStep(g) ==
    LET dt == DType(stack)
        res == ImageInit(2, dt, TRUE)
        to == Normalize(dt, TRUE)
        sl == Slice(stack, g.i)
    IN  IF g.i >= g.c
        THEN /\ gen' = EndGen("done")
             /\ err' = "none"
             /\ UNCHANGED <<heap, stack, item, cur>>
        ELSE IF g.i >= Count(stack)
        THEN /\ gen' = EndGen("failed")
             /\ err' = "IndexError"
             /\ UNCHANGED <<heap, stack, item, cur>>
        ELSE IF res # "none"
        THEN /\ gen' = EndGen("failed")
             /\ err' = res
             /\ UNCHANGED <<heap, stack, item, cur>>
        ELSE /\ gen' = [g EXCEPT !.i = g.i + 1]
             /\ err' = "none"
             /\ IF to # dt
                THEN Store(Alloc(to, heap[stack.blk].h, heap[stack.blk].w,
                                 CastPlanes(<<Pixels(sl)>>, to)),
                           stack, item, [blk |-> NewBlock, lo |-> 1])
                ELSE Store(heap, stack, item, sl)

\* list(stack): the generator run to its end with nothing in between
ListIterate(s) ==
    LET dt == DType(s)
        ok == Count(s) = 0 \/ ImageInit(2, dt, TRUE) = "none"
    IN  [ok |-> ok,
         images |-> IF ok /\ Count(s) > 0
                    THEN CastPlanes(StackPlanes(s), Normalize(dt, TRUE))
                    ELSE <<>>]

\* iter(stack) and the first next(): range(self._data.shape[0]) is fixed here
IterStart ==
    /\ stack # NoStack
    /\ GenStep([pc |-> "active", i |-> 0, c |-> Count(stack), snap |-> StackPlanes(stack)])

\* a later next() of the running generator
IterNext ==
    /\ gen.pc = "active"
    /\ GenStep(gen)

\* ------------------------------------------------------------- the caller's writes
\* image.data[...] = v on an image the caller holds
WriteImage(src, v) ==
    LET im == Holder(src)
        blk == heap[im.blk]
    IN  /\ im # NoImage
        /\ heap' = [heap EXCEPT ![im.blk].planes[im.lo] =
                       Fill(AsType(v, blk.dtype), blk.h * blk.w)]
        /\ err' = "none"
        /\ UNCHANGED <<stack, item, cur, gen>>

Init ==
    /\ heap = [b \in Blocks |-> FreeBlock]
    /\ stack = NoStack
    /\ item = NoImage
    /\ cur = NoImage
    /\ gen = IdleGen
    /\ err = "none"

\* the buffers and flags the constructors accept: a constructor that fails
\* leaves every entity as it was
Accepted(rank) ==
    {x \in [ndim : {rank}, dtype : EntityDTypes, auto_cast : BOOLEAN] :
        (IF rank = 2 THEN ImageInit(x.ndim, x.dtype, x.auto_cast)
                     ELSE StackInit(x.ndim, x.dtype, x.auto_cast)) = "none"}

\* the values a buffer of n planes of shape hw is filled from: one when it
\* holds no pixel
FillVals(n, hw) == IF n * hw[1] * hw[2] = 0 THEN {0} ELSE Vals

\* the calls that build the entities
Build ==
    \/ \E x \in Accepted(2), hw \in Shapes :
          \E v \in FillVals(1, hw) :
             ImageConstruct(x.ndim, x.dtype, x.auto_cast, hw[1], hw[2], v)
    \/ \E x \in Accepted(3), n \in 0..MaxCount, hw \in Shapes :
          \E v \in FillVals(n, hw) :
             StackConstruct(x.ndim, x.dtype, x.auto_cast, n, hw[1], hw[2], v)
    \/ StackConstructEmpty

Next ==
    \/ Build
    \/ \E src \in {"item", "cur"} : AppendItem(src)
    \/ IterStart
    \/ IterNext
    \/ \E src \in {"item", "cur"}, v \in Vals : WriteImage(src, v)

Spec == Init /\ [][Next]_vars

\* the checks the calls make of their arguments: the constructors on buffers of
\* every rank and element type (of one shape and content, which the checks do
\* not read), append on an argument that is no image
NextConstruct ==
    \/ \E ndim \in Ranks, dtype \in DTypes, ac \in BOOLEAN :
          ImageConstruct(ndim, dtype, ac, 1, 1, 0)
    \/ \E ndim \in Ranks, dtype \in DTypes, ac \in BOOLEAN, n \in 0..MaxCount :
          StackConstruct(ndim, dtype, ac, n, 1, 1, 0)
    \/ StackConstructEmpty
    \/ AppendItem("other")

SpecConstruct == Init /\ [][NextConstruct]_vars

\* ------------------------------------------------------------- claims
Sources == {"item", "cur"}

\* C1: appending an image of the stack's (H, W) to a stack of m images makes
\* the length m + 1, and iterating yields the m prior images in their order
\* followed by the appended one (stated for entities of allowed element type,
\* for every (H, W), zero extents included)
C1_AppendExtends ==
    [][\A src \in Sources :
          (/\ AppendItem(src)
           /\ Count(stack) > 0 => Shape2(Holder(src)) = Shape2(stack)
           /\ DType(stack) \in ALLOWED_DTYPES
           /\ DType(Holder(src)) \in ALLOWED_DTYPES)
          => /\ err' = "none"
             /\ Count(stack)' = Count(stack) + 1
             /\ (ListIterate(stack).images)' =
                    Append(ListIterate(stack).images, Pixels(Holder(src)))]_vars

\* C2: on a stack holding at least one image, append of an image of another
\* (H, W) fails with ValueError and leaves the stack's buffer, shape and length
\* as they were
C2_MismatchRejected ==
    [][\A src \in Sources :
          (/\ AppendItem(src)
           /\ Count(stack) >= 1
           /\ Shape2(Holder(src)) # Shape2(stack))
          => /\ err' = "ValueError"
             /\ UNCHANGED <<heap, stack>>]_vars

\* C3: for every stack that was constructed, a complete iteration does not
\* fail and produces as many images as the length
C3_LengthIsIterated ==
    stack # NoStack =>
        /\ ListIterate(stack).ok
        /\ Len(ListIterate(stack).images) = Count(stack)

\* what the dtype policy asks of a constructor call on a buffer of the right rank
C4_Expected(dtype, auto_cast, stored) ==
    IF auto_cast
    THEN /\ (err' = "none") <=> (dtype \in {"uint8", "float32", "float64", "int16", "uint16"})
         /\ err' # "none" => err' = "UnsupportedDType"
         /\ err' = "none" =>
               stored = (IF dtype \in {"int16", "uint16"} THEN "float32" ELSE dtype)
    ELSE err' = "none" /\ stored = dtype

\* C4: with auto_cast a constructor accepts exactly uint8, float32, float64,
\* int16 and uint16, stores float32 for the 16-bit types and the input type
\* otherwise, and fails with UnsupportedDType on every other type; without
\* auto_cast it accepts every element type and stores it as it is
C4_DTypePolicy ==
    [][\A dtype \in DTypes, ac \in BOOLEAN :
          /\ ImageConstruct(2, dtype, ac, 1, 1, 0)
                => C4_Expected(dtype, ac, DType(item)')
          /\ \A n \in 0..MaxCount :
                StackConstruct(3, dtype, ac, n, 1, 1, 0)
                   => C4_Expected(dtype, ac, DType(stack)')]_vars

\* a 16-bit buffer was cast for an image and a disallowed type was stored in
\* a stack built without auto_cast
C4_Witness ==
    /\ item # NoImage /\ DType(item) = "float32"
    /\ stack # NoStack /\ DType(stack) = "int32"
    /\ err = "UnsupportedDType"

\* C5: a buffer whose rank is not 2 (not 3 for a stack) makes the constructor
\* fail with InvalidRank, whatever the element type and auto_cast, and no
\* entity is created
C5_RankChecked ==
    [][\A ndim \in Ranks, dtype \in DTypes, ac \in BOOLEAN :
          /\ (ndim # 2 /\ ImageConstruct(ndim, dtype, ac, 1, 1, 0))
                => err' = "InvalidRank" /\ UNCHANGED <<heap, stack, item, cur>>
          /\ \A n \in 0..MaxCount :
                (ndim # 3 /\ StackConstruct(ndim, dtype, ac, n, 1, 1, 0))
                   => err' = "InvalidRank" /\ UNCHANGED <<heap, stack, item, cur>>]_vars

\* a constructor failed on the rank and the entities built before are there
C5_Witness ==
    /\ err = "InvalidRank"
    /\ item # NoImage
    /\ stack # NoStack

\* C6: a stack constructed with auto_cast holds an allowed element type in
\* every reachable state
C6_StackDTypeAllowed ==
    (stack # NoStack /\ stack.auto_cast) => DType(stack) \in ALLOWED_DTYPES

Yielded == (IterStart \/ IterNext) /\ gen'.pc = "active"

C8_AppendCopies ==
    [][\A src \in Sources :
          (AppendItem(src) /\ err' = "none")
          => ~Shares(stack, item)' /\ ~Shares(stack, cur)']_vars

\* C9: a successful append on an Empty stack (total size 0) makes it
\* Populated; on a Populated stack it keeps (H, W) and raises the length by
\* one; and no step takes a Populated stack back to Empty
C9_EmptyThenPopulated ==
    [][/\ \A src \in Sources :
            (AppendItem(src) /\ err' = "none")
            => IF IsEmpty(stack)
               THEN ~IsEmpty(stack)'
               ELSE /\ Shape2(stack)' = Shape2(stack)
                    /\ Count(stack)' = Count(stack) + 1
       /\ (stack # NoStack /\ ~IsEmpty(stack)) => ~IsEmpty(stack)']_vars

\* C10: a resumed iteration does not fail, whatever was appended meanwhile,
\* and yields the image that was at its index when the iteration started
C10_ResumedIteration ==
    [][IterNext =>
          /\ err' = "none"
          /\ gen'.pc = "active" =>
                Pixels(cur)' = CastPlanes(<<gen.snap[gen.i + 1]>>, DType(cur)')[1]]_vars
====
